---- MODULE Spec2Model ----
(***************************************************************************)
(* nftableslib: the table-scoped chain store (nfChains) and its            *)
(* reconciliation with the kernel's chain listing.                         *)
(*                                                                         *)
(* A Go pointer is modelled as a record [ref, val] (or Nil): `ref` is the  *)
(* allocation the pointer names and `val` the value stored there.  The     *)
(* nftables library's ChainHook* / ChainPriority* values are package-level *)
(* pointers (ref "lib", one allocation per value); the chains returned by  *)
(* ListChains are decoded into fresh allocations (ref "list"), which no    *)
(* caller holds.  `!=` on two pointers compares the records, i.e. the      *)
(* allocations.                                                            *)
(***************************************************************************)
EXTENDS Integers, Sequences, FiniteSets, TLC

\* ---------------------------------------------------------------- bounds
\* Calls of the chain API (and caller commits) started in one behaviour.
MaxCalls == 3
\* Delete attempts one DeleteImm call may issue before only the deadline is left.
MaxAttempts == 3
\* Changes other processes make to the kernel's chains in one behaviour.
MaxExternal == 1

\* ------------------------------------------------------------- constants
ChainPolicyAccept == 1
ChainPolicyDrop == 0

Nil == [nil |-> TRUE]

Threads == {"t1", "t2"}
NoThread == "none"

Names == {"A", "B"}

\* The table that owns the store, and two tables that differ from it in
\* family, respectively in name.
OwnTable == [Name |-> "filter", Family |-> "ip"]
OtherFamily == [Name |-> "filter", Family |-> "ip6"]
OtherName == [Name |-> "nat", Family |-> "ip"]
Tables == {OwnTable, OtherFamily, OtherName}

\* Library pointers: nftables.ChainHookPrerouting, nftables.ChainPriorityFirst, ...
LibPtr(v) == [ref |-> "lib", val |-> v]
\* A pointer to a variable of the caller (var accept = ChainPolicyAccept; &accept).
CallerPtr(v) == [ref |-> "caller", val |-> v]
\* A pointer to the variable `policy` of create (&policy).
CreatePtr(v) == [ref |-> "create", val |-> v]

ChainHookPrerouting == LibPtr("prerouting")
ChainHookInput == LibPtr("input")
ChainPriorityFirst == LibPtr("first")

\* The pointer p as decoded into, or encoded from, another allocation.
WithRef(p, r) == IF p = Nil THEN Nil ELSE [ref |-> r, val |-> p.val]

\* ChainAttributes a caller passes (Device is never read by the store).
Attr(type, hook, prio, policy) ==
    [Type |-> type, Hook |-> hook, Priority |-> prio, Policy |-> policy]

AttrBase == Attr("filter", ChainHookInput, ChainPriorityFirst, CallerPtr(ChainPolicyAccept))

\* The attributes callers pass: nil (a regular chain), one base chain, the
\* base chains that differ from it in the hook, in the policy (drop, or none
\* given), and in the type, left empty, which Validate rejects.
AttrChoices ==
    { Nil,
      AttrBase,
      [AttrBase EXCEPT !.Hook = ChainHookPrerouting],
      [AttrBase EXCEPT !.Policy = CallerPtr(ChainPolicyDrop)],
      [AttrBase EXCEPT !.Policy = Nil],
      [AttrBase EXCEPT !.Type = ""] }

\* ----------------------------------------------------------------- state
VARIABLES
    chains,     \* nfChains.chains: name -> *nfChain (Nil: no entry)
    lock,       \* nfChains.Mutex: the thread that holds it, or NoThread
    staged,     \* conn: the requests staged and not yet committed
    kernel,     \* the kernel's chains: table -> name -> chain (Nil: none)
    th,         \* per thread: position in the call it runs, its locals, its result
    life,       \* per name: "created" / "deleted" while only Create, Delete and commits touched it
    calls,      \* number of calls started
    externals,  \* number of changes made by other processes
    active,     \* the threads that run in this behaviour
    l3          \* the rule compiler: a call of createL3, its arguments and its result

vars == <<chains, lock, staged, kernel, th, life, calls, externals, active, l3>>

\* No call of the rule compiler.
NoL3 == [pc |-> "none"]

\* ------------------------------------------------------------- transport
\* nftables.Chain as the store builds it for AddChain.
NewChain(name, attributes, policy) ==
    IF attributes = Nil
    THEN [Name |-> name, Table |-> OwnTable, Hooknum |-> Nil, Priority |-> Nil,
          Type |-> "", Policy |-> Nil]
    ELSE [Name |-> name, Table |-> OwnTable, Hooknum |-> attributes.Hook,
          Priority |-> attributes.Priority, Type |-> attributes.Type,
          Policy |-> policy]

\* What the kernel keeps of a chain it is asked to add.
KernelChain(c) ==
    [Hooknum |-> WithRef(c.Hooknum, "kernel"), Priority |-> WithRef(c.Priority, "kernel"),
     Type |-> c.Type, Policy |-> WithRef(c.Policy, "kernel")]

\* A chain as ListChains decodes it: every attribute into a fresh allocation.
ListedChain(t, n, k) ==
    [Name |-> n, Table |-> t, Hooknum |-> WithRef(k.Hooknum, "list"),
     Priority |-> WithRef(k.Priority, "list"), Type |-> k.Type,
     Policy |-> WithRef(k.Policy, "list")]

\* The order in which the kernel lists its chains.
ListOrder ==
    << <<OtherName, "A">>, <<OwnTable, "A">>, <<OwnTable, "B">>, <<OtherFamily, "B">> >>

RECURSIVE ListFrom(_, _)
ListFrom(k, i) ==
    IF i > Len(ListOrder) THEN <<>>
    ELSE LET t == ListOrder[i][1]
             n == ListOrder[i][2]
         IN  IF k[t][n] = Nil THEN ListFrom(k, i + 1)
             ELSE <<ListedChain(t, n, k[t][n])>> \o ListFrom(k, i + 1)

\* conn.ListChains() when it succeeds.
ListChains(k) == ListFrom(k, 1)

\* One staged request applied to the kernel's chains.
ApplyMsg(k, m) ==
    LET t == m.chain.Table
        n == m.chain.Name
    IN  IF m.kind = "add"
        THEN IF k[t][n] = Nil THEN [k EXCEPT ![t][n] = KernelChain(m.chain)] ELSE k
        ELSE [k EXCEPT ![t][n] = Nil]

RECURSIVE ApplyAll(_, _)
ApplyAll(k, msgs) ==
    IF msgs = <<>> THEN k ELSE ApplyAll(ApplyMsg(k, Head(msgs)), Tail(msgs))

\* A batch the kernel can apply: no request deletes a chain that is not there.
RECURSIVE Applicable(_, _)
Applicable(k, msgs) ==
    IF msgs = <<>> THEN TRUE
    ELSE LET m == Head(msgs)
         IN  /\ (m.kind = "del" => k[m.chain.Table][m.chain.Name] # Nil)
             /\ Applicable(ApplyMsg(k, m), Tail(msgs))

\* AddChain called twice for one chain.
AddChainTwice(msgs, c) ==
    Append(Append(msgs, [kind |-> "add", chain |-> c]), [kind |-> "add", chain |-> c])

\* conn.AddChain(c) / conn.DelChain(c): stage one request.
AddChain(msgs, c) == Append(msgs, [kind |-> "add", chain |-> c])
DelChain(msgs, c) == Append(msgs, [kind |-> "del", chain |-> c])

\* The results conn.Flush() can have on the staged requests: nil (the whole
\* batch is applied), EBUSY or another error (nothing is applied).
FlushResults(k, msgs) ==
    (IF Applicable(k, msgs) THEN {"nil"} ELSE {}) \cup {"EBUSY", "EOTHER"}

AfterFlush(k, msgs, res) == IF res = "nil" THEN ApplyAll(k, msgs) ELSE k

\* ------------------------------------------------------------ the store
InStore(name) == chains[name] # Nil

\* ChainAttributes.Validate
Validate(attributes) == IF attributes.Type = "" THEN "invalid" ELSE "nil"

\* isEqualChain with the policies compared as the hooks are: by pointer.
isEqualChainPolicyPtr(ch, attributes) ==
    IF ch.chain = Nil THEN FALSE
    ELSE IF ch.rules = Nil THEN FALSE
    ELSE IF ch.baseChain /\ attributes = Nil THEN FALSE
    ELSE IF ~ch.baseChain /\ attributes # Nil THEN FALSE
    ELSE IF attributes = Nil THEN TRUE
    ELSE IF \/ attributes.Hook # ch.chain.Hooknum
            \/ attributes.Type # ch.chain.Type
            \/ attributes.Priority # ch.chain.Priority
         THEN FALSE
    ELSE IF attributes.Policy = Nil THEN TRUE
    ELSE attributes.Policy = ch.chain.Policy

isEqualChain(ch, attributes) ==
    IF ch.chain = Nil THEN FALSE
    ELSE IF ch.rules = Nil THEN FALSE
    ELSE IF ch.baseChain /\ attributes = Nil THEN FALSE
    ELSE IF ~ch.baseChain /\ attributes # Nil THEN FALSE
    ELSE IF attributes = Nil THEN TRUE
    ELSE IF \/ attributes.Hook # ch.chain.Hooknum
            \/ attributes.Type # ch.chain.Type
            \/ attributes.Priority # ch.chain.Priority
         THEN FALSE
    ELSE IF attributes.Policy = Nil THEN TRUE
    ELSE IF ch.chain.Policy = Nil THEN FALSE
    ELSE attributes.Policy.val = ch.chain.Policy.val

\* An *nfChain; `id` names the allocation by the call that made it, `by` by
\* the function.
NewNfChain(c, baseChain, id, by) ==
    [chain |-> c, baseChain |-> baseChain, rules |-> [chain |-> c.Name],
     id |-> id, by |-> by]

\* create without the insert of a new chain into the store.
createStageOnly(cs, msgs, name, attributes, id) ==
    IF cs[name] # Nil
    THEN IF isEqualChain(cs[name], attributes)
         THEN <<"nil", cs, msgs>>
         ELSE <<"conflict", cs, msgs>>
    ELSE IF attributes # Nil /\ Validate(attributes) # "nil"
    THEN <<Validate(attributes), cs, msgs>>
    ELSE LET policy == IF attributes = Nil THEN Nil
                       ELSE IF attributes.Policy # Nil
                            THEN CreatePtr(attributes.Policy.val)
                            ELSE CreatePtr(ChainPolicyAccept)
         IN  <<"nil", cs, AddChain(msgs, NewChain(name, attributes, policy))>>

\* nfChains.create: <<error, chains, staged>> from the store and the requests
\* staged before the call.
create(cs, msgs, name, attributes, id) ==
    IF cs[name] # Nil
    THEN IF isEqualChain(cs[name], attributes)
         THEN <<"nil", cs, msgs>>
         ELSE <<"conflict", cs, msgs>>
    ELSE IF attributes # Nil /\ Validate(attributes) # "nil"
    THEN <<Validate(attributes), cs, msgs>>
    ELSE LET policy == IF attributes = Nil THEN Nil
                       ELSE IF attributes.Policy # Nil
                            THEN CreatePtr(attributes.Policy.val)
                            ELSE CreatePtr(ChainPolicyAccept)
             c == NewChain(name, attributes, policy)
         IN  <<"nil", [cs EXCEPT ![name] = NewNfChain(c, attributes # Nil, id, "create")],
               AddChain(msgs, c)>>

\* -------------------------------------------------------------- threads
Idle ==
    [pc |-> "idle", op |-> "none", name |-> "", attrs |-> Nil, ret |-> "",
     list |-> <<>>, i |-> 0, olist |-> <<>>, oi |-> 0, names |-> <<>>, ch |-> Nil,
     results |-> <<>>, expired |-> FALSE, late |-> 0, synced |-> FALSE,
     seq |-> 0, again |-> FALSE, lifeAtCall |-> "none"]

\* The record of thread t as it enters a call, the seq-th of the behaviour:
\* `again` says that the call repeats the thread's previous call, which
\* returned nil; `results` will hold what the call's commits returned.
Start(t, op, name, attrs) ==
    [Idle EXCEPT !.pc = op, !.op = op, !.name = name, !.attrs = attrs,
                 !.seq = calls + 1,
                 !.again = /\ th[t].op = op /\ th[t].name = name
                           /\ th[t].attrs = attrs /\ th[t].ret = "nil",
                 !.lifeAtCall = IF name \in Names THEN life[name] ELSE "none"]

\* The call returns r: the loop indices are gone with the frame.
Return(rec, r) == [rec EXCEPT !.pc = "idle", !.ret = r, !.i = 0, !.oi = 0]

CanCall(t) == t \in active /\ th[t].pc = "idle" /\ calls < MaxCalls

NoLife == [n \in Names |-> "none"]

\* ------------------------------------------------------- Create, CreateImm
Create(t, name, attributes) ==
    /\ CanCall(t)
    /\ lock = NoThread
    /\ LET r == create(chains, staged, name, attributes, calls + 1)
       IN  /\ chains' = r[2]
           /\ staged' = r[3]
           /\ th' = [th EXCEPT ![t] = Return(Start(t, "Create", name, attributes), r[1])]
           /\ life' = [life EXCEPT ![name] = IF r[1] = "nil" THEN "created" ELSE "none"]
    /\ calls' = calls + 1
    /\ UNCHANGED <<lock, kernel, externals, active, l3>>

\* CreateImm returning without a commit when create staged nothing.
CreateImmCreateSkips(t, name, attributes) ==
    /\ CanCall(t)
    /\ lock = NoThread
    /\ LET r == create(chains, staged, name, attributes, calls + 1)
           rec == Start(t, "CreateImm", name, attributes)
       IN  /\ chains' = r[2]
           /\ staged' = r[3]
           /\ IF r[1] # "nil" \/ r[3] = staged
              THEN /\ th' = [th EXCEPT ![t] = Return(rec, r[1])]
                   /\ lock' = NoThread
              ELSE /\ th' = [th EXCEPT ![t] = [rec EXCEPT !.pc = "CreateImmFlush"]]
                   /\ lock' = t
    /\ life' = [life EXCEPT ![name] = "none"]
    /\ calls' = calls + 1
    /\ UNCHANGED <<kernel, externals, active, l3>>

\* CreateImm up to its commit: the lock is taken and create has run.
CreateImmCreate(t, name, attributes) ==
    /\ CanCall(t)
    /\ lock = NoThread
    /\ LET r == create(chains, staged, name, attributes, calls + 1)
           rec == Start(t, "CreateImm", name, attributes)
       IN  /\ chains' = r[2]
           /\ staged' = r[3]
           /\ IF r[1] # "nil"
              THEN /\ th' = [th EXCEPT ![t] = Return(rec, r[1])]
                   /\ lock' = NoThread
              ELSE /\ th' = [th EXCEPT ![t] = [rec EXCEPT !.pc = "CreateImmFlush"]]
                   /\ lock' = t
    /\ life' = [life EXCEPT ![name] = "none"]
    /\ calls' = calls + 1
    /\ UNCHANGED <<kernel, externals, active, l3>>

\* CreateImm's commit, and its return.
CreateImmFlush(t) ==
    /\ th[t].pc = "CreateImmFlush"
    /\ \E res \in FlushResults(kernel, staged) :
          /\ kernel' = AfterFlush(kernel, staged, res)
          /\ th' = [th EXCEPT ![t] = Return([@ EXCEPT !.results = Append(@, res)], res)]
          /\ life' = [life EXCEPT ![th[t].name] = IF res = "nil" THEN "created" ELSE "none"]
    /\ staged' = <<>>
    /\ lock' = NoThread
    /\ UNCHANGED <<chains, calls, externals, active, l3>>

\* ------------------------------------------------------- Delete, DeleteImm
\* DeleteImm with the entry dropped before the commit's error is looked at.
DeleteImmStoreAlways(cs, name, err) == [cs EXCEPT ![name] = Nil]

\* DeleteImm without the delete of the entry.
DeleteImmStoreKeeps(cs, name, err) == cs

\* The store after one delete attempt of DeleteImm returned err: the entry
\* is deleted when the commit succeeded.
DeleteImmStore(cs, name, err) == IF err = "nil" THEN [cs EXCEPT ![name] = Nil] ELSE cs

\* DeleteImm with every error of the commit retried.
RetryableAny(err) == err # "nil"

\* errors.Is(err, unix.EBUSY)
Retryable(err) == err = "EBUSY"

\* DeleteImm with the mutex released before its loop.
DeleteImmLockNone(t) == NoThread

\* The holder of the mutex while DeleteImm runs: Lock, defer Unlock.
DeleteImmLock(t) == t

Delete(t, name) ==
    /\ CanCall(t)
    /\ lock = NoThread
    /\ IF InStore(name)
       THEN /\ staged' = DelChain(staged, chains[name].chain)
            /\ chains' = [chains EXCEPT ![name] = Nil]
            /\ th' = [th EXCEPT ![t] = Return(Start(t, "Delete", name, Nil), "nil")]
            /\ life' = [life EXCEPT ![name] = IF @ = "created" THEN "deleted" ELSE "none"]
       ELSE /\ th' = [th EXCEPT ![t] = Return(Start(t, "Delete", name, Nil), "notfound")]
            /\ life' = [life EXCEPT ![name] = "none"]
            /\ UNCHANGED <<staged, chains>>
    /\ calls' = calls + 1
    /\ UNCHANGED <<lock, kernel, externals, active, l3>>

\* DeleteImm up to its loop: the lock is taken and the name looked up; the
\* deadline timer and the ticker are started.
DeleteImmLookup(t, name) ==
    /\ CanCall(t)
    /\ lock = NoThread
    /\ IF InStore(name)
       THEN /\ th' = [th EXCEPT ![t] =
                        [Start(t, "DeleteImm", name, Nil) EXCEPT
                            !.pc = "DeleteImmAttempt", !.ch = chains[name]]]
            /\ lock' = DeleteImmLock(t)
       ELSE /\ th' = [th EXCEPT ![t] = Return(Start(t, "DeleteImm", name, Nil), "notfound")]
            /\ lock' = NoThread
    /\ life' = [life EXCEPT ![name] = IF InStore(name) THEN @ ELSE "none"]
    /\ calls' = calls + 1
    /\ UNCHANGED <<chains, staged, kernel, externals, active, l3>>

\* One pass of DeleteImm's loop up to the select: DelChain, Flush, and what
\* the error decides.
DeleteImmAttempt(t) ==
    /\ th[t].pc = "DeleteImmAttempt"
    /\ LET name == th[t].name
           msgs == DelChain(staged, th[t].ch.chain)
       IN  \E res \in FlushResults(kernel, msgs) :
              LET rec == [th[t] EXCEPT !.results = Append(@, res), !.ret = res]
              IN  /\ kernel' = AfterFlush(kernel, msgs, res)
                  /\ chains' = DeleteImmStore(chains, name, res)
                  /\ IF res = "nil"
                     THEN /\ th' = [th EXCEPT ![t] = Return(rec, res)]
                          /\ lock' = NoThread
                          /\ life' = [life EXCEPT ![name] =
                                        IF @ = "created" THEN "deleted" ELSE "none"]
                     ELSE IF ~Retryable(res)
                     THEN /\ th' = [th EXCEPT ![t] = Return(rec, res)]
                          /\ lock' = NoThread
                          /\ life' = [life EXCEPT ![name] = "none"]
                     ELSE /\ th' = [th EXCEPT ![t] = [rec EXCEPT !.pc = "DeleteImmSelect"]]
                          /\ UNCHANGED <<lock, life>>
    /\ staged' = <<>>
    /\ UNCHANGED <<calls, externals, active, l3>>

\* The deadline timer of a DeleteImm in progress fires.
Deadline(t) ==
    /\ th[t].pc \in {"DeleteImmAttempt", "DeleteImmSelect"}
    /\ ~th[t].expired
    /\ th' = [th EXCEPT ![t].expired = TRUE]
    /\ UNCHANGED <<chains, lock, staged, kernel, life, calls, externals, active, l3>>

\* select, case <-timeout.C
DeleteImmTimeout(t) ==
    /\ th[t].pc = "DeleteImmSelect"
    /\ th[t].expired
    /\ th' = [th EXCEPT ![t] = Return(@, @.ret)]
    /\ lock' = NoThread
    /\ life' = [life EXCEPT ![th[t].name] = "none"]
    /\ UNCHANGED <<chains, staged, kernel, calls, externals, active, l3>>

\* select, case <-ticker.C: the next attempt is issued; `late` counts the
\* attempts issued after the deadline timer has fired.
DeleteImmTick(t) ==
    /\ th[t].pc = "DeleteImmSelect"
    /\ Len(th[t].results) < MaxAttempts
    /\ th' = [th EXCEPT ![t].pc = "DeleteImmAttempt",
                        ![t].late = IF th[t].expired THEN @ + 1 ELSE @]
    /\ UNCHANGED <<chains, lock, staged, kernel, life, calls, externals, active, l3>>

\* ------------------------------------------------------------------ Sync
\* The table test with the family left out.
IsOwnName(chain) == chain.Table.Name = OwnTable.Name

IsOwn(chain) == chain.Table.Name = OwnTable.Name /\ chain.Table.Family = OwnTable.Family

\* The next index from i on of a listed chain of the owning table.
RECURSIVE NextOwn(_, _)
NextOwn(list, i) ==
    IF i > Len(list) \/ IsOwn(list[i]) THEN i ELSE NextOwn(list, i + 1)

\* The tag Sync gives a chain it learns from the kernel.
SyncBaseChain(chain) == chain.Type # "" /\ chain.Hooknum # ChainHookPrerouting

\* The *nfChain Sync builds for a listed chain.
SyncNfChain(chain, id) == NewNfChain(chain, SyncBaseChain(chain), id, "sync")

\* Sync without its look-up: every listed chain is taken as missing.
SyncHasNot(cs, name) == FALSE

\* Whether Sync finds name in the store.
SyncHas(cs, name) == cs[name] # Nil

\* The return of Sync into Get without the append of the chain's name.
SyncReturnSkips(rec, err) ==
    IF rec.op = "Exist"
    THEN Return(rec, IF err = "nil" THEN "true" ELSE "false")
    ELSE IF rec.op = "Get"
    THEN IF err # "nil" THEN Return([rec EXCEPT !.names = <<>>], err)
         ELSE [rec EXCEPT !.pc = "GetLoop", !.oi = @ + 1]
    ELSE Return(rec, err)

\* Sync returns err: to its caller when the call is Sync, and otherwise into
\* the Exist or Get that invoked it, which goes on from there.
SyncReturn(rec, err) ==
    IF rec.op = "Exist"
    THEN Return(rec, IF err = "nil" THEN "true" ELSE "false")
    ELSE IF rec.op = "Get"
    THEN IF err # "nil" THEN Return([rec EXCEPT !.names = <<>>], err)
         ELSE [rec EXCEPT !.pc = "GetLoop", !.oi = @ + 1,
                          !.names = Append(@, rec.olist[rec.oi].Name)]
    ELSE Return(rec, err)

\* The kernel's answer to a listing: the chains, or an error.
ListResults == {"nil", "EOTHER"}

\* The results of syncing the rule store of one chain.
RulesSyncResults == {"nil", "EOTHER"}

SyncCall(t) ==
    /\ CanCall(t)
    /\ th' = [th EXCEPT ![t] = [Start(t, "Sync", "", Nil) EXCEPT !.pc = "SyncList"]]
    /\ life' = NoLife
    /\ calls' = calls + 1
    /\ UNCHANGED <<chains, lock, staged, kernel, externals, active, l3>>

\* chains, err := nfc.conn.ListChains()
SyncList(t) ==
    /\ th[t].pc = "SyncList"
    /\ \E res \in ListResults :
          th' = [th EXCEPT ![t] =
                   IF res # "nil" THEN SyncReturn(@, res)
                   ELSE [@ EXCEPT !.pc = "SyncLoop", !.list = ListChains(kernel), !.i = 1]]
    /\ UNCHANGED <<chains, lock, staged, kernel, life, calls, externals, active, l3>>

\* The loop up to the next chain of the owning table, and the look-up of its
\* name in the store, made without the lock.
SyncLoop(t) ==
    /\ th[t].pc = "SyncLoop"
    /\ LET j == NextOwn(th[t].list, th[t].i)
       IN  th' = [th EXCEPT ![t] =
                    IF j > Len(@.list) THEN SyncReturn([@ EXCEPT !.i = j], "nil")
                    ELSE IF SyncHas(chains, @.list[j].Name) THEN [@ EXCEPT !.i = j + 1]
                    ELSE [@ EXCEPT !.i = j, !.pc = "SyncInsert"]]
    /\ UNCHANGED <<chains, lock, staged, kernel, life, calls, externals, active, l3>>

\* Lock; nfc.chains[chain.Name] = &nfChain{...}; Unlock
SyncInsert(t) ==
    /\ th[t].pc = "SyncInsert"
    /\ lock = NoThread
    /\ LET chain == th[t].list[th[t].i]
       IN  chains' = [chains EXCEPT ![chain.Name] = SyncNfChain(chain, th[t].seq)]
    /\ th' = [th EXCEPT ![t].pc = "SyncRules"]
    /\ UNCHANGED <<lock, staged, kernel, life, calls, externals, active, l3>>

\* nfc.chains[chain.Name].Rules().Sync(), the entry read without the lock: a
\* nil pointer dereference when the entry is gone.
SyncRules(t) ==
    /\ th[t].pc = "SyncRules"
    /\ IF ~InStore(th[t].list[th[t].i].Name)
       THEN th' = [th EXCEPT ![t].pc = "panic"]
       ELSE \E res \in RulesSyncResults :
               th' = [th EXCEPT ![t] =
                        IF res # "nil" THEN SyncReturn(@, res)
                        ELSE [@ EXCEPT !.pc = "SyncLoop", !.i = @ + 1]]
    /\ UNCHANGED <<chains, lock, staged, kernel, life, calls, externals, active, l3>>

\* ----------------------------------------------------------------- Exist
\* The look-up in the store, made without the lock.
ExistLocal(t, name) ==
    /\ CanCall(t)
    /\ th' = [th EXCEPT ![t] =
                IF InStore(name) THEN Return(Start(t, "Exist", name, Nil), "true")
                ELSE [Start(t, "Exist", name, Nil) EXCEPT !.pc = "ExistList"]]
    /\ life' = NoLife
    /\ calls' = calls + 1
    /\ UNCHANGED <<chains, lock, staged, kernel, externals, active, l3>>

\* name is among the listed chains of the owning table.
Listed(list, name) ==
    \E j \in 1..Len(list) : list[j].Name = name /\ IsOwn(list[j])

\* The listing, and the search for name in it; Sync is entered when found.
ExistList(t) ==
    /\ th[t].pc = "ExistList"
    /\ \E res \in ListResults :
          th' = [th EXCEPT ![t] =
                   IF res # "nil" THEN Return(@, "false")
                   ELSE LET list == ListChains(kernel)
                        IN  IF Listed(list, @.name)
                            THEN [@ EXCEPT !.olist = list, !.synced = TRUE, !.pc = "SyncList"]
                            ELSE Return([@ EXCEPT !.olist = list], "false")]
    /\ UNCHANGED <<chains, lock, staged, kernel, life, calls, externals, active, l3>>

\* ------------------------------------------------------------------- Get
GetList(t) ==
    /\ CanCall(t)
    /\ \E res \in ListResults :
          th' = [th EXCEPT ![t] =
                   IF res # "nil" THEN Return(Start(t, "Get", "", Nil), res)
                   ELSE [Start(t, "Get", "", Nil) EXCEPT
                            !.pc = "GetLoop", !.olist = ListChains(kernel), !.oi = 1]]
    /\ life' = NoLife
    /\ calls' = calls + 1
    /\ UNCHANGED <<chains, lock, staged, kernel, externals, active, l3>>

\* The loop up to the next chain of the owning table: Sync is entered when
\* its name is not in the store (read without the lock), the name is appended.
GetLoop(t) ==
    /\ th[t].pc = "GetLoop"
    /\ LET j == NextOwn(th[t].olist, th[t].oi)
       IN  th' = [th EXCEPT ![t] =
                    IF j > Len(@.olist) THEN Return([@ EXCEPT !.oi = j], "nil")
                    ELSE IF InStore(@.olist[j].Name)
                    THEN [@ EXCEPT !.oi = j + 1, !.names = Append(@, th[t].olist[j].Name)]
                    ELSE [@ EXCEPT !.oi = j, !.synced = TRUE, !.pc = "SyncList"]]
    /\ UNCHANGED <<chains, lock, staged, kernel, life, calls, externals, active, l3>>

\* ----------------------------------------------------------- Chain, Dump
Chain(t, name) ==
    /\ CanCall(t)
    /\ lock = NoThread
    /\ th' = [th EXCEPT ![t] =
                Return(Start(t, "Chain", name, Nil), IF InStore(name) THEN "nil" ELSE "notfound")]
    /\ life' = NoLife
    /\ calls' = calls + 1
    /\ UNCHANGED <<chains, lock, staged, kernel, externals, active, l3>>

\* The errors json.Marshal and the rule store's Dump can return for a chain.
DumpResults(cs) == IF \E n \in Names : cs[n] # Nil THEN {"nil", "EOTHER"} ELSE {"nil"}

Dump(t) ==
    /\ CanCall(t)
    /\ lock = NoThread
    /\ \E res \in DumpResults(chains) :
          th' = [th EXCEPT ![t] = Return(Start(t, "Dump", "", Nil), res)]
    /\ life' = NoLife
    /\ calls' = calls + 1
    /\ UNCHANGED <<chains, lock, staged, kernel, externals, active, l3>>

\* ------------------------------------------------------------ environment
\* The caller commits what is staged on the connection: conn.Flush().
Commit(t) ==
    /\ CanCall(t)
    /\ \E res \in FlushResults(kernel, staged) :
          /\ kernel' = AfterFlush(kernel, staged, res)
          /\ th' = [th EXCEPT ![t] =
                      Return([Start(t, "Commit", "", Nil) EXCEPT !.results = <<res>>], res)]
    /\ staged' = <<>>
    /\ calls' = calls + 1
    /\ UNCHANGED <<chains, lock, life, externals, active, l3>>

ExternalRegular == [Hooknum |-> Nil, Priority |-> Nil, Type |-> "", Policy |-> Nil]
ExternalBase ==
    [Hooknum |-> [ref |-> "kernel", val |-> "prerouting"],
     Priority |-> [ref |-> "kernel", val |-> "first"], Type |-> "nat",
     Policy |-> [ref |-> "kernel", val |-> ChainPolicyAccept]]

\* What another process can put in place of the chain n of table tb: nothing
\* (it deletes the chain), or a chain where there is none.
ExternalChoices(tb, n) ==
    IF kernel[tb][n] # Nil THEN {Nil}
    ELSE IF tb = OwnTable THEN {ExternalRegular, ExternalBase}
    ELSE {ExternalRegular}

\* Another process adds or deletes a chain in the kernel.
External ==
    /\ externals < MaxExternal
    /\ \E i \in 1..Len(ListOrder) :
          LET tb == ListOrder[i][1]
              n == ListOrder[i][2]
          IN  \E k \in ExternalChoices(tb, n) : kernel' = [kernel EXCEPT ![tb][n] = k]
    /\ externals' = externals + 1
    /\ life' = NoLife
    /\ UNCHANGED <<chains, lock, staged, th, calls, active, l3>>

\* ---------------------------------------------------------- specification
InitStore ==
    /\ chains = [n \in Names |-> Nil]
    /\ lock = NoThread
    /\ staged = <<>>
    /\ kernel = [tb \in Tables |-> [n \in Names |-> Nil]]
    /\ th = [t \in Threads |-> Idle]
    /\ life = NoLife
    /\ calls = 0
    /\ externals = 0

\* One caller.
Init == InitStore /\ active = {"t1"} /\ l3 = NoL3

Next ==
    \/ \E t \in Threads, n \in Names, a \in AttrChoices : Create(t, n, a)
    \/ \E t \in Threads, n \in Names, a \in AttrChoices : CreateImmCreate(t, n, a)
    \/ \E t \in Threads : CreateImmFlush(t)
    \/ \E t \in Threads, n \in Names : Delete(t, n)
    \/ \E t \in Threads, n \in Names : DeleteImmLookup(t, n)
    \/ \E t \in Threads : DeleteImmAttempt(t)
    \/ \E t \in Threads : Deadline(t)
    \/ \E t \in Threads : DeleteImmTimeout(t)
    \/ \E t \in Threads : DeleteImmTick(t)
    \/ \E t \in Threads : SyncCall(t)
    \/ \E t \in Threads : SyncList(t)
    \/ \E t \in Threads : SyncLoop(t)
    \/ \E t \in Threads : SyncInsert(t)
    \/ \E t \in Threads : SyncRules(t)
    \/ \E t \in Threads, n \in Names : ExistLocal(t, n)
    \/ \E t \in Threads : ExistList(t)
    \/ \E t \in Threads : GetList(t)
    \/ \E t \in Threads : GetLoop(t)
    \/ \E t \in Threads, n \in Names : Chain(t, n)
    \/ \E t \in Threads : Dump(t)
    \/ \E t \in Threads : Commit(t)
    \/ External

Spec == Init /\ [][Next]_vars

\* Two callers that share the store; they name one chain, regular or base.
InitConc == InitStore /\ active = Threads /\ l3 = NoL3

ConcNames == {"A"}
ConcAttrs == {Nil, AttrBase}

NextConc ==
    \/ \E t \in Threads, n \in ConcNames, a \in ConcAttrs : Create(t, n, a)
    \/ \E t \in Threads, n \in ConcNames, a \in ConcAttrs : CreateImmCreate(t, n, a)
    \/ \E t \in Threads : CreateImmFlush(t)
    \/ \E t \in Threads, n \in ConcNames : Delete(t, n)
    \/ \E t \in Threads, n \in ConcNames : DeleteImmLookup(t, n)
    \/ \E t \in Threads : DeleteImmAttempt(t)
    \/ \E t \in Threads : Deadline(t)
    \/ \E t \in Threads : DeleteImmTimeout(t)
    \/ \E t \in Threads : DeleteImmTick(t)
    \/ \E t \in Threads : SyncCall(t)
    \/ \E t \in Threads : SyncList(t)
    \/ \E t \in Threads : SyncLoop(t)
    \/ \E t \in Threads : SyncInsert(t)
    \/ \E t \in Threads : SyncRules(t)
    \/ \E t \in Threads, n \in ConcNames : ExistLocal(t, n)
    \/ \E t \in Threads : ExistList(t)
    \/ \E t \in Threads : GetList(t)
    \/ \E t \in Threads : GetLoop(t)
    \/ \E t \in Threads, n \in ConcNames : Chain(t, n)
    \/ \E t \in Threads : Dump(t)
    \/ \E t \in Threads : Commit(t)
    \/ External

SpecConc == InitConc /\ [][NextConc]_vars

\* What the scheduler and the runtime guarantee to a call in progress: a
\* goroutine that can run does run and the transport answers (weak fairness
\* of the steps that need no lock), a goroutine waiting in Lock() gets the
\* mutex (strong fairness of Sync's insert), the deadline timer fires, and a
\* select that finds the deadline fired again and again takes that case.
FairConc ==
    \A t \in Threads :
        /\ WF_vars(CreateImmFlush(t))
        /\ WF_vars(DeleteImmAttempt(t))
        /\ WF_vars(Deadline(t))
        /\ SF_vars(DeleteImmTimeout(t))
        /\ WF_vars(SyncList(t))
        /\ WF_vars(SyncLoop(t))
        /\ SF_vars(SyncInsert(t))
        /\ WF_vars(SyncRules(t))
        /\ WF_vars(ExistList(t))
        /\ WF_vars(GetLoop(t))

\* Calls made in a behaviour that is checked for progress.
MaxFairCalls == 2

\* NextConc with at most MaxFairCalls calls made.
NextConcFair ==
    \/ \E t \in Threads, n \in ConcNames, a \in ConcAttrs :
          calls < MaxFairCalls /\ Create(t, n, a)
    \/ \E t \in Threads, n \in ConcNames, a \in ConcAttrs :
          calls < MaxFairCalls /\ CreateImmCreate(t, n, a)
    \/ \E t \in Threads : CreateImmFlush(t)
    \/ \E t \in Threads, n \in ConcNames : calls < MaxFairCalls /\ Delete(t, n)
    \/ \E t \in Threads, n \in ConcNames : calls < MaxFairCalls /\ DeleteImmLookup(t, n)
    \/ \E t \in Threads : DeleteImmAttempt(t)
    \/ \E t \in Threads : Deadline(t)
    \/ \E t \in Threads : DeleteImmTimeout(t)
    \/ \E t \in Threads : DeleteImmTick(t)
    \/ \E t \in Threads : calls < MaxFairCalls /\ SyncCall(t)
    \/ \E t \in Threads : SyncList(t)
    \/ \E t \in Threads : SyncLoop(t)
    \/ \E t \in Threads : SyncInsert(t)
    \/ \E t \in Threads : SyncRules(t)
    \/ \E t \in Threads, n \in ConcNames : calls < MaxFairCalls /\ ExistLocal(t, n)
    \/ \E t \in Threads : ExistList(t)
    \/ \E t \in Threads : calls < MaxFairCalls /\ GetList(t)
    \/ \E t \in Threads : GetLoop(t)
    \/ \E t \in Threads, n \in ConcNames : calls < MaxFairCalls /\ Chain(t, n)
    \/ \E t \in Threads : calls < MaxFairCalls /\ Dump(t)
    \/ \E t \in Threads : calls < MaxFairCalls /\ Commit(t)
    \/ External

\* Two callers, scheduled fairly.
SpecConcFair == InitConc /\ [][NextConcFair]_vars /\ FairConc

\* ------------------------------------------------------ the rule compiler
\* nftables.TableFamily: IPv4, IPv6, and a family createL3 does not know.
TableFamilyIPv4 == "ip"
TableFamilyIPv6 == "ip6"
TableFamilyINet == "inet"
Families == {TableFamilyIPv4, TableFamilyIPv6, TableFamilyINet}

\* net.IP is a byte slice: 4 bytes, or 16 bytes; nil is the empty slice.
v4InV6Prefix == <<0, 0, 0, 0, 0, 0, 0, 0, 0, 0, 255, 255>>

\* net.IP.To4: the 4-byte form of an IPv4 address, nil for any other.
To4(ip) ==
    IF Len(ip) = 4 THEN ip
    ELSE IF Len(ip) = 16 /\ SubSeq(ip, 1, 12) = v4InV6Prefix THEN SubSeq(ip, 13, 16)
    ELSE <<>>

\* net.IP.To16: the 16-byte form of an address, nil for a slice of a wrong length.
To16(ip) ==
    IF Len(ip) = 4 THEN v4InV6Prefix \o ip
    ELSE IF Len(ip) = 16 THEN ip
    ELSE <<>>

\* *IPAddr (CIDR and Mask are not read by createL3).
IPAddr(ip) == [IP |-> ip]

\* 1.2.3.4 as a 4-byte slice, 2.3.4.5 as net.ParseIP returns it (16 bytes),
\* and 2001:1234::1.
Addrs ==
    { IPAddr(<<1, 2, 3, 4>>),
      IPAddr(v4InV6Prefix \o <<2, 3, 4, 5>>),
      IPAddr(<<32, 1, 18, 52, 0, 0, 0, 0, 0, 0, 0, 0, 0, 0, 0, 1>>) }

\* Longest address list of a rule.
MaxList == 2

AddrLists == UNION {[1..k -> Addrs] : k \in 1..MaxList}

NoRange == <<Nil, Nil>>

\* The ranges of a spec without a list: none, one endpoint, both.
AddrRanges ==
    {NoRange}
        \cup {<<a, Nil>> : a \in Addrs} \cup {<<Nil, a>> : a \in Addrs}
        \cup {<<a, a>> : a \in Addrs}

\* *IPAddrSpec
AddrSpecs ==
    {[List |-> l, Range |-> NoRange] : l \in AddrLists}
        \cup {[List |-> <<>>, Range |-> r] : r \in AddrRanges}

\* *Rule, as far as createL3 reads it.
Rules ==
    {[L3 |-> [Src |-> src, Dst |-> dst, Version |-> v], Exclude |-> e] :
        src \in AddrSpecs \cup {Nil}, dst \in AddrSpecs \cup {Nil},
        v \in {Nil, CallerPtr(4)}, e \in BOOLEAN}

\* *nftables.Set as the caller passes it.
NewSet == [KeyType |-> "none"]

\* getExprForIPVersion, getExprForSingleIP, getExprForRangeIP and
\* getExprForListIP: the instructions of one match, <<exprs, err>>.
getExprForIPVersion(version, excl) ==
    <<[kind |-> "version", version |-> version, excl |-> excl], "nil">>

getExprForSingleIP(l3proto, offset, addr, excl) ==
    <<[kind |-> "cmp", family |-> l3proto, offset |-> offset, addr |-> addr,
       excl |-> excl], "nil">>

getExprForRangeIP(l3proto, offset, rng, excl) ==
    <<[kind |-> "range", family |-> l3proto, offset |-> offset, rng |-> rng,
       excl |-> excl], "nil">>

getExprForListIP(l3proto, set, offset, excl) ==
    <<[kind |-> "lookup", family |-> l3proto, offset |-> offset, set |-> set,
       excl |-> excl], "nil">>

\* What createL3 returns, and the set it was passed as it leaves it; rule and
\* elements are Nil for Go's nil.
L3Result(rule, elements, err, set) ==
    [rule |-> rule, elements |-> elements, err |-> err, set |-> set]

\* &nftables.Rule{Exprs: re}
L3RuleOf(re) == [Exprs |-> re]

processVersion(version, excl, set) ==
    LET r == getExprForIPVersion(version, excl)
    IN  IF r[2] # "nil" THEN L3Result(Nil, Nil, r[2], set)
        ELSE L3Result(L3RuleOf(r[1]), Nil, "nil", set)

processAddrRange(l3proto, offset, rng, excl, set) ==
    LET r == getExprForRangeIP(l3proto, offset, rng, excl)
    IN  IF r[2] # "nil" THEN L3Result(Nil, Nil, r[2], set)
        ELSE L3Result(L3RuleOf(r[1]), Nil, "nil", set)

\* The key of the set element made for one list entry: nil unless the family
\* is IPv4 or IPv6.
ElementKey(l3proto, addr) ==
    IF l3proto = TableFamilyIPv4 THEN To4(addr.IP)
    ELSE IF l3proto = TableFamilyIPv6 THEN To16(addr.IP)
    ELSE <<>>

\* processAddrList without the special case of a single entry.
processAddrListAlwaysSet(l3proto, offset, list, excl, set) ==
    LET setElements == [i \in 1..Len(list) |-> [Key |-> ElementKey(l3proto, list[i])]]
        r == getExprForListIP(l3proto, set, offset, excl)
    IN  L3Result(L3RuleOf(r[1]), setElements, "nil", set)

processAddrList(l3proto, offset, list, excl, set) ==
    IF Len(list) = 1
    THEN LET r == getExprForSingleIP(l3proto, offset, list[1], excl)
         IN  IF r[2] # "nil" THEN L3Result(Nil, Nil, r[2], set)
             ELSE L3Result(L3RuleOf(r[1]), Nil, "nil", set)
    ELSE LET setElements == [i \in 1..Len(list) |-> [Key |-> ElementKey(l3proto, list[i])]]
         IN  IF Len(setElements) = 0
             THEN L3Result(Nil, Nil, "unknown family", set)
             ELSE LET r == getExprForListIP(l3proto, set, offset, excl)
                  IN  IF r[2] # "nil" THEN L3Result(Nil, Nil, r[2], set)
                      ELSE L3Result(L3RuleOf(r[1]), setElements, "nil", set)

\* The switch on l3proto for Src and for Dst: the offset of the address in
\* the IP header and the key type of the set.
\* The switch on l3proto without its default case.
KnownFamilyAny(l3proto) == TRUE

KnownFamily(l3proto) == l3proto \in {TableFamilyIPv4, TableFamilyIPv6}

\* The source offset with the IPv4 value used for both families.
SrcAddrOffsetV4Only(l3proto) == 12

SrcAddrOffset(l3proto) ==
    CASE l3proto = TableFamilyIPv4 -> 12
      [] l3proto = TableFamilyIPv6 -> 8
      [] OTHER -> 0

DstAddrOffset(l3proto) ==
    CASE l3proto = TableFamilyIPv4 -> 16
      [] l3proto = TableFamilyIPv6 -> 24
      [] OTHER -> 0

SetKeyType(l3proto) ==
    CASE l3proto = TableFamilyIPv4 -> "TypeIPAddr"
      [] l3proto = TableFamilyIPv6 -> "TypeIP6Addr"
      [] OTHER -> "none"

\* createL3 with Src taking precedence over Dst.
createL3SrcLast(l3proto, rule, set) ==
    LET l3r == rule.L3
    IN  IF l3r.Version # Nil THEN processVersion(l3r.Version.val, rule.Exclude, set)
        ELSE IF (l3r.Src # Nil \/ l3r.Dst # Nil) /\ ~KnownFamily(l3proto)
        THEN L3Result(Nil, Nil, "unknown family", set)
        ELSE LET ruleAddr == IF l3r.Src # Nil THEN l3r.Src ELSE l3r.Dst
                 addrOffset == IF l3r.Src # Nil THEN SrcAddrOffset(l3proto)
                               ELSE IF l3r.Dst # Nil THEN DstAddrOffset(l3proto)
                               ELSE 0
                 set1 == IF ruleAddr # Nil
                         THEN [set EXCEPT !.KeyType = SetKeyType(l3proto)] ELSE set
             IN  IF ruleAddr = Nil THEN L3Result(Nil, Nil, "both nil", set1)
                 ELSE IF Len(ruleAddr.List) # 0
                 THEN processAddrList(l3proto, addrOffset, ruleAddr.List, rule.Exclude, set1)
                 ELSE IF ruleAddr.Range[1] # Nil /\ ruleAddr.Range[2] # Nil
                 THEN processAddrRange(l3proto, addrOffset, ruleAddr.Range, rule.Exclude, set1)
                 ELSE L3Result(Nil, Nil, "empty", set1)

createL3(l3proto, rule, set) ==
    LET l3r == rule.L3
    IN  IF l3r.Version # Nil THEN processVersion(l3r.Version.val, rule.Exclude, set)
        ELSE IF (l3r.Src # Nil \/ l3r.Dst # Nil) /\ ~KnownFamily(l3proto)
        THEN L3Result(Nil, Nil, "unknown family", set)
        ELSE LET ruleAddr == IF l3r.Dst # Nil THEN l3r.Dst ELSE l3r.Src
                 addrOffset == IF l3r.Dst # Nil THEN DstAddrOffset(l3proto)
                               ELSE IF l3r.Src # Nil THEN SrcAddrOffset(l3proto)
                               ELSE 0
                 set1 == IF ruleAddr # Nil
                         THEN [set EXCEPT !.KeyType = SetKeyType(l3proto)] ELSE set
             IN  IF ruleAddr = Nil THEN L3Result(Nil, Nil, "both nil", set1)
                 ELSE IF Len(ruleAddr.List) # 0
                 THEN processAddrList(l3proto, addrOffset, ruleAddr.List, rule.Exclude, set1)
                 ELSE IF ruleAddr.Range[1] # Nil /\ ruleAddr.Range[2] # Nil
                 THEN processAddrRange(l3proto, addrOffset, ruleAddr.Range, rule.Exclude, set1)
                 ELSE L3Result(Nil, Nil, "empty", set1)

\* A call of createL3 about to be made.
L3Call(l3proto, rule) ==
    [pc |-> "call", l3proto |-> l3proto, rule |-> rule, set |-> NewSet, ret |-> Nil]

\* The call returns.
CreateL3 ==
    /\ l3.pc = "call"
    /\ l3' = [l3 EXCEPT !.pc = "done", !.ret = createL3(l3.l3proto, l3.rule, l3.set)]
    /\ UNCHANGED <<chains, lock, staged, kernel, th, life, calls, externals, active>>

\* createL3 on every family and rule; the chain store is not used.
InitL3 ==
    /\ InitStore
    /\ active = {}
    /\ l3 \in {L3Call(f, r) : f \in Families, r \in Rules}

NextL3 == CreateL3

SpecL3 == InitL3 /\ [][NextL3]_vars


\* ================================================================ claims
Done(t, op) == th[t].pc = "idle" /\ th[t].op = op

Last(q) == q[Len(q)]

AllBusy(q) == q # <<>> /\ \A j \in 1..Len(q) : q[j] = "EBUSY"

\* Thread t starts a call in this step.
Calls(t) == calls' = calls + 1 /\ th'[t].seq = calls + 1

\* Two pointers to the same value, or both nil.
SameVal(p, q) == IF p = Nil \/ q = Nil THEN p = q ELSE p.val = q.val

\* The policy a request asks for: accept when it names none.
RequestedPolicy(a) == IF a.Policy = Nil THEN CreatePtr(ChainPolicyAccept) ELSE a.Policy

\* Attribute equivalence of a stored chain and a request: the tag and, for a
\* base chain, hook, type, priority and policy.
Equivalent(ch, a) ==
    /\ ch.baseChain = (a # Nil)
    /\ a # Nil => /\ SameVal(a.Hook, ch.chain.Hooknum)
                  /\ a.Type = ch.chain.Type
                  /\ SameVal(a.Priority, ch.chain.Priority)
                  /\ SameVal(RequestedPolicy(a), ch.chain.Policy)

C2_BusyThenSuccess ==
    \A t \in Threads :
        (Done(t, "DeleteImm") /\ th[t].results # <<>> /\ Last(th[t].results) = "nil")
            => /\ th[t].ret = "nil"
               /\ ~InStore(th[t].name)
               /\ \A j \in 1..(Len(th[t].results) - 1) : th[t].results[j] = "EBUSY"

C2_Witness ==
    \E t \in Threads :
        /\ Done(t, "DeleteImm")
        /\ th[t].results = <<"EBUSY", "nil">>
        /\ th[t].ret = "nil"
        /\ ~InStore(th[t].name)

\* C3: a Create that repeats the caller's previous, successful Create (same
\* name, same attributes) returns nil, leaves every entry of the store as it
\* is and stages nothing.
C3_CreateIdempotent ==
    [][\A t \in Threads :
          (Calls(t) /\ th'[t].op = "Create" /\ th'[t].again)
              => /\ th'[t].ret = "nil"
                 /\ InStore(th'[t].name)
                 /\ chains' = chains
                 /\ staged' = staged]_vars

C3_Witness ==
    \E t \in Threads :
        /\ Done(t, "Create")
        /\ th[t].again
        /\ th[t].attrs # Nil
        /\ th[t].attrs.Policy # Nil
        /\ th[t].ret = "nil"
        /\ InStore(th[t].name)

\* C4 (as claimed): Create or CreateImm of a stored name with attributes that
\* are not equivalent to the stored chain's returns the conflict error, leaves
\* the store and the staged requests as they are and commits nothing.
C4_Original ==
    [][\A t \in Threads :
          (/\ Calls(t)
           /\ th'[t].op \in {"Create", "CreateImm"}
           /\ InStore(th'[t].name)
           /\ ~Equivalent(chains[th'[t].name], th'[t].attrs))
              => /\ th'[t].pc = "idle"
                 /\ th'[t].ret = "conflict"
                 /\ th'[t].results = <<>>
                 /\ chains' = chains
                 /\ staged' = staged]_vars

\* C5 (as claimed): Create of a stored name succeeds only if the request is
\* equivalent to the stored chain in tag, hook, type, priority and policy.
C5_Original ==
    \A t \in Threads :
        (/\ Done(t, "Create")
         /\ th[t].ret = "nil"
         /\ InStore(th[t].name)
         /\ chains[th[t].name].id < th[t].seq)
            => Equivalent(chains[th[t].name], th[t].attrs)

\* The positions of a thread inside Sync.
SyncPcs == {"SyncList", "SyncLoop", "SyncInsert", "SyncRules"}

\* C6: no step of a Sync removes or replaces an entry of the store.
C6_SyncAddOnly ==
    [][\A t \in Threads :
          (th[t].pc \in SyncPcs /\ th'[t] # th[t])
              => \A n \in Names : chains[n] # Nil => chains'[n] = chains[n]]_vars

C6_Witness ==
    \E t \in Threads :
        /\ Done(t, "Sync")
        /\ th[t].ret = "nil"
        /\ \E n, m \in Names :
              /\ chains[n] # Nil /\ chains[n].id < th[t].seq
              /\ \E j \in 1..Len(th[t].list) :
                    th[t].list[j].Name = n /\ th[t].list[j].Table = OwnTable
              /\ chains[m] # Nil /\ chains[m].id = th[t].seq

\* C7: when Sync returns nil, every chain it was listed for the owning table
\* is in the store, and every entry it made wraps a listed chain of the owning
\* table.
C7_SyncRebuilds ==
    \A t \in Threads :
        (Done(t, "Sync") /\ th[t].ret = "nil")
            => /\ \A j \in 1..Len(th[t].list) :
                     th[t].list[j].Table = OwnTable => InStore(th[t].list[j].Name)
               /\ \A n \in Names :
                     (chains[n] # Nil /\ chains[n].id = th[t].seq)
                         => /\ chains[n].chain.Table = OwnTable
                            /\ chains[n].chain.Name = n
                            /\ \E j \in 1..Len(th[t].list) : th[t].list[j] = chains[n].chain

C7_Witness ==
    \E t \in Threads :
        /\ Done(t, "Sync")
        /\ th[t].ret = "nil"
        /\ \E n \in Names : chains[n] # Nil /\ chains[n].id = th[t].seq
        /\ \E j \in 1..Len(th[t].list) : th[t].list[j].Table # OwnTable

\* C8 (as claimed): an entry Sync made is tagged base exactly when the kernel
\* reports the chain with a hook or a type, and it is equal, for Create, to
\* the attributes a chain with these values was created with.
C8_Original ==
    \A n \in Names :
        (chains[n] # Nil /\ chains[n].by = "sync")
            => /\ chains[n].baseChain
                     = (chains[n].chain.Type # "" \/ chains[n].chain.Hooknum # Nil)
               /\ \A a \in AttrChoices :
                     (/\ a # Nil
                      /\ Validate(a) = "nil"
                      /\ KernelChain(chains[n].chain)
                             = KernelChain(NewChain(n, a, RequestedPolicy(a))))
                         => isEqualChain(chains[n], a)

\* C9 (as claimed): an Exist that missed the name in the store and returns
\* true has the name in the store; an Exist that finds the name neither in the
\* store nor in its listing returns false.
C9_Original ==
    \A t \in Threads :
        Done(t, "Exist")
            => /\ (th[t].ret = "true" /\ th[t].synced) => InStore(th[t].name)
               /\ (~InStore(th[t].name) /\ ~th[t].synced) => th[t].ret = "false"

\* C10 (as claimed): Exist of a name whose Create succeeded and whose Delete
\* followed, with nothing but commits of the caller in between and no change
\* by another process, returns false.
C10_Original ==
    \A t \in Threads :
        (Done(t, "Exist") /\ th[t].lifeAtCall = "deleted" /\ externals = 0)
            => th[t].ret = "false"

\* C11: a Create that returns nil leaves the name in the store; an Exist of a
\* name that is in the store returns true at once, whatever the kernel holds;
\* and an entry leaves the store only by a Delete or DeleteImm of its name
\* that returns nil.
C11_ExistAfterCreate ==
    [][/\ \A t \in Threads :
             /\ (Calls(t) /\ th'[t].op = "Create" /\ th'[t].ret = "nil")
                    => chains'[th'[t].name] # Nil
             /\ (Calls(t) /\ th'[t].op = "Exist" /\ InStore(th'[t].name))
                    => (th'[t].pc = "idle" /\ th'[t].ret = "true")
       /\ \A n \in Names :
             (chains[n] # Nil /\ chains'[n] = Nil)
                 => \E t \in Threads :
                       /\ th'[t] # th[t]
                       /\ th'[t].op \in {"Delete", "DeleteImm"}
                       /\ th'[t].name = n
                       /\ th'[t].pc = "idle"
                       /\ th'[t].ret = "nil"]_vars

\* An Exist returned true for a chain that a call made two calls earlier,
\* another call having run in between, while the kernel does not hold it.
C11_Witness ==
    \E t \in Threads :
        /\ Done(t, "Exist")
        /\ th[t].ret = "true"
        /\ ~th[t].synced
        /\ InStore(th[t].name)
        /\ chains[th[t].name].by = "create"
        /\ chains[th[t].name].id = th[t].seq - 2
        /\ kernel[OwnTable][th[t].name] = Nil

\* The names of the chains of a listing that belong to the owning table.
RECURSIVE OwnNames(_)
OwnNames(list) ==
    IF list = <<>> THEN <<>>
    ELSE (IF Head(list).Table = OwnTable THEN <<Head(list).Name>> ELSE <<>>)
             \o OwnNames(Tail(list))

\* The elements of a sequence.
Range(q) == {q[j] : j \in 1..Len(q)}

\* C12 (as claimed): a Get that returns nil returns exactly the names of the
\* chains in the store.
C12_Original ==
    \A t \in Threads :
        (Done(t, "Get") /\ th[t].ret = "nil")
            => Range(th[t].names) = {n \in Names : InStore(n)}

\* C12 (amended): a Get that returns nil returns the names of the chains its
\* kernel listing holds for the owning table, in the order of the listing.
C12_GetListsKernel ==
    \A t \in Threads :
        (Done(t, "Get") /\ th[t].ret = "nil")
            => th[t].names = OwnNames(th[t].olist)

\* A Get that ran Sync returned a chain of the kernel and not the chain that
\* is in the store only.
C12_Witness ==
    \E t \in Threads :
        /\ Done(t, "Get")
        /\ th[t].ret = "nil"
        /\ th[t].synced
        /\ th[t].names # <<>>
        /\ \E n \in Names : InStore(n) /\ n \notin Range(th[t].names)

\* Thread t reads or writes the chain map in this step.
Accesses(t) ==
    \/ /\ Calls(t)
       /\ th'[t].op \in {"Chain", "Create", "CreateImm", "Delete", "DeleteImm", "Exist", "Dump"}
    \/ /\ th'[t] # th[t]
       /\ \/ th[t].pc \in {"DeleteImmAttempt", "SyncInsert", "SyncRules"}
          \/ th[t].pc = "SyncLoop" /\ NextOwn(th[t].list, th[t].i) <= Len(th[t].list)
          \/ th[t].pc = "GetLoop" /\ NextOwn(th[t].olist, th[t].oi) <= Len(th[t].olist)

\* C13 (as claimed): a thread reads or writes the chain map only while it
\* holds the mutex, so never while another thread holds it.
C13_Original ==
    [][\A t \in Threads : Accesses(t) => lock \in {NoThread, t}]_vars

\* The positions of a thread inside the loop of DeleteImm.
DeleteImmPcs == {"DeleteImmAttempt", "DeleteImmSelect"}

\* C14: while a thread is in the loop of DeleteImm, no other thread starts or
\* completes a Create or CreateImm, is between the create and the commit of a
\* CreateImm, or changes the store.
C14_NoCreateDuringDeleteImm ==
    [][\A t \in Threads :
          th[t].pc \in DeleteImmPcs
              => /\ lock = t
                 /\ \A u \in Threads \ {t} :
                       /\ th[u].pc # "CreateImmFlush"
                       /\ ~(Calls(u) /\ th'[u].op \in {"Create", "CreateImm"})
                       /\ (th'[u] # th[u] => chains' = chains)]_vars

\* A DeleteImm that met a busy commit has returned, and a Create of the same
\* name by the other thread, started after it, has returned too.
C14_Witness ==
    \E t \in Threads, u \in Threads :
        /\ u # t
        /\ Done(t, "DeleteImm")
        /\ th[t].results # <<>> /\ th[t].results[1] = "EBUSY"
        /\ Done(u, "Create")
        /\ th[u].name = th[t].name
        /\ th[u].seq > th[t].seq
        /\ th[u].ret = "nil"

\* C15 (as claimed): a DeleteImm issues at most one attempt after its deadline
\* has fired, and when it has returned after busy attempts only, the deadline
\* has fired, the last error is returned and the mutex is released.
C15_Original ==
    \A t \in Threads :
        th[t].op = "DeleteImm"
            => /\ th[t].late <= 1
               /\ (th[t].pc = "idle" /\ AllBusy(th[t].results))
                      => (th[t].expired /\ th[t].ret = "EBUSY" /\ lock # t)

\* C16: in a DeleteImm every attempt that is followed by another one was
\* busy, and an attempt that failed with another error is the last: the call
\* has returned that error in the step of the attempt.
C16_OnlyBusyRetried ==
    \A t \in Threads :
        th[t].op = "DeleteImm"
            => /\ \A j \in 1..(Len(th[t].results) - 1) : th[t].results[j] = "EBUSY"
               /\ (th[t].results # <<>> /\ Last(th[t].results) = "EOTHER")
                      => (th[t].pc = "idle" /\ th[t].ret = "EOTHER")

C16_Witness ==
    \E t \in Threads :
        /\ Done(t, "DeleteImm")
        /\ th[t].results = <<"EBUSY", "EOTHER">>
        /\ th[t].ret = "EOTHER"
        /\ ~th[t].expired

\* C17: a Create or a Delete returns in the step it is called in, commits
\* nothing and leaves the kernel's chains as they are; it stages nothing and
\* leaves the store as it is, or stages one request for its name (an add for
\* Create, a delete for Delete) and changes the entry of its name only.
C17_BatchedStageOnly ==
    [][\A t \in Threads :
          (Calls(t) /\ th'[t].op \in {"Create", "Delete"})
              => LET name == th'[t].name
                 IN  /\ th'[t].pc = "idle"
                     /\ th'[t].results = <<>>
                     /\ kernel' = kernel
                     /\ \A n \in Names \ {name} : chains'[n] = chains[n]
                     /\ \/ staged' = staged /\ chains'[name] = chains[name]
                        \/ /\ staged' = Append(staged, Last(staged'))
                           /\ Last(staged').kind
                                  = (IF th'[t].op = "Create" THEN "add" ELSE "del")
                           /\ Last(staged').chain.Name = name
                           /\ chains'[name] # chains[name]]_vars

\* A Delete has returned, the add request of an earlier Create and its own
\* delete request are staged, and the kernel has not seen the chain.
C17_Witness ==
    \E t \in Threads :
        /\ Done(t, "Delete")
        /\ th[t].ret = "nil"
        /\ Len(staged) = 2
        /\ staged[1].kind = "add" /\ staged[1].chain.Name = th[t].name
        /\ staged[2].kind = "del" /\ staged[2].chain.Name = th[t].name
        /\ kernel[OwnTable][th[t].name] = Nil
        /\ ~InStore(th[t].name)

\* The last call of thread record rec was a CreateImm whose commit failed.
FailedCreateImm(rec) ==
    /\ rec.op = "CreateImm"
    /\ rec.pc = "idle"
    /\ rec.results # <<>>
    /\ Last(rec.results) # "nil"

\* C18: a CreateImm whose commit fails returns the commit's error and leaves
\* the entry of its name in the store and the kernel as it was; a Create of
\* the same name with the same attributes that follows returns nil and
\* changes neither the store nor the staged requests.
C18_NoRollback ==
    [][\A t \in Threads :
          /\ (th'[t] # th[t] /\ FailedCreateImm(th'[t]))
                 => /\ th'[t].ret = Last(th'[t].results)
                    /\ chains'[th'[t].name] # Nil
                    /\ chains' = chains
                    /\ kernel' = kernel
          /\ (/\ FailedCreateImm(th[t])
              /\ Calls(t)
              /\ th'[t].op = "Create"
              /\ th'[t].name = th[t].name
              /\ th'[t].attrs = th[t].attrs)
                 => /\ th'[t].ret = "nil"
                    /\ chains' = chains
                    /\ staged' = staged]_vars

\* A Create of a base chain returned nil on the entry that the call before
\* it made, nothing is staged and the kernel does not hold the chain.
C18_Witness ==
    \E t \in Threads :
        /\ Done(t, "Create")
        /\ th[t].ret = "nil"
        /\ th[t].attrs # Nil
        /\ InStore(th[t].name)
        /\ chains[th[t].name].by = "create"
        /\ chains[th[t].name].id = th[t].seq - 1
        /\ staged = <<>>
        /\ externals = 0
        /\ kernel[OwnTable][th[t].name] = Nil

\* The call of createL3 has returned.
L3Done == l3.pc = "done"

\* The rule of the call sets Src only, respectively Dst only.
OnlySrc == l3.rule.L3.Version = Nil /\ l3.rule.L3.Src # Nil /\ l3.rule.L3.Dst = Nil
OnlyDst == l3.rule.L3.Version = Nil /\ l3.rule.L3.Src = Nil /\ l3.rule.L3.Dst # Nil

\* C19: a createL3 that succeeds compiles the match of a rule with Src only
\* at offset 12 for IPv4 and 8 for IPv6, of a rule with Dst only at offset 16
\* for IPv4 and 24 for IPv6, and leaves the set with the key type of the
\* family's addresses.
C19_AddrOffsets ==
    (L3Done /\ l3.ret.err = "nil" /\ (OnlySrc \/ OnlyDst))
        => /\ l3.l3proto \in {TableFamilyIPv4, TableFamilyIPv6}
           /\ l3.ret.rule.Exprs.offset
                  = (IF l3.l3proto = TableFamilyIPv4
                     THEN (IF OnlySrc THEN 12 ELSE 16)
                     ELSE (IF OnlySrc THEN 8 ELSE 24))
           /\ l3.ret.set.KeyType
                  = (IF l3.l3proto = TableFamilyIPv4 THEN "TypeIPAddr" ELSE "TypeIP6Addr")

\* A source list of two addresses was compiled for IPv6.
C19_Witness ==
    /\ L3Done
    /\ OnlySrc
    /\ l3.l3proto = TableFamilyIPv6
    /\ Len(l3.rule.L3.Src.List) = 2
    /\ l3.ret.err = "nil"
    /\ l3.ret.rule.Exprs.offset = 8
    /\ l3.ret.set.KeyType = "TypeIP6Addr"

\* The address list the call compiles: that of Dst when set, else that of Src.
L3List ==
    IF l3.rule.L3.Dst # Nil THEN l3.rule.L3.Dst.List
    ELSE IF l3.rule.L3.Src # Nil THEN l3.rule.L3.Src.List
    ELSE <<>>

\* C20 (as claimed): a list of two or more addresses compiles, for IPv4 and
\* for IPv6, to a set lookup and one element per entry, in the order of the
\* list, each key the entry's address in the width of the family (4 bytes,
\* 16 bytes).
C20_Original ==
    (/\ L3Done
     /\ l3.rule.L3.Version = Nil
     /\ l3.l3proto \in {TableFamilyIPv4, TableFamilyIPv6}
     /\ Len(L3List) >= 2)
        => /\ l3.ret.err = "nil"
           /\ l3.ret.rule.Exprs.kind = "lookup"
           /\ l3.ret.elements # Nil
           /\ Len(l3.ret.elements) = Len(L3List)
           /\ \A i \in 1..Len(L3List) :
                 /\ Len(l3.ret.elements[i].Key)
                        = (IF l3.l3proto = TableFamilyIPv4 THEN 4 ELSE 16)
                 /\ To16(l3.ret.elements[i].Key) = To16(L3List[i].IP)

\* The address range the call compiles: that of Dst when set, else that of Src.
L3Range ==
    IF l3.rule.L3.Dst # Nil THEN l3.rule.L3.Dst.Range
    ELSE IF l3.rule.L3.Src # Nil THEN l3.rule.L3.Src.Range
    ELSE NoRange

\* C21: for IPv4 and for IPv6, for Src and for Dst, with and without Exclude,
\* a list of exactly one address compiles without error to one comparison
\* with that address and no set elements (nil); a complete range compiles to
\* a range match and no set elements; a rule with Version set compiles to a
\* version match and no set elements.
C21_SingleNoElements ==
    L3Done =>
        /\ (l3.rule.L3.Version = Nil /\ KnownFamily(l3.l3proto) /\ Len(L3List) = 1)
               => /\ l3.ret.err = "nil"
                  /\ l3.ret.rule.Exprs.kind = "cmp"
                  /\ l3.ret.rule.Exprs.addr = L3List[1]
                  /\ l3.ret.rule.Exprs.excl = l3.rule.Exclude
                  /\ l3.ret.elements = Nil
        /\ (/\ l3.rule.L3.Version = Nil
            /\ KnownFamily(l3.l3proto)
            /\ Len(L3List) = 0
            /\ L3Range[1] # Nil
            /\ L3Range[2] # Nil)
               => /\ l3.ret.err = "nil"
                  /\ l3.ret.rule.Exprs.kind = "range"
                  /\ l3.ret.elements = Nil
        /\ l3.rule.L3.Version # Nil
               => /\ l3.ret.err = "nil"
                  /\ l3.ret.rule.Exprs.kind = "version"
                  /\ l3.ret.elements = Nil

\* A destination list of the one address 2001:1234::1 was compiled for IPv6
\* with Exclude set.
C21_Witness ==
    /\ L3Done
    /\ OnlyDst
    /\ l3.l3proto = TableFamilyIPv6
    /\ l3.rule.Exclude
    /\ Len(l3.rule.L3.Dst.List) = 1
    /\ Len(l3.rule.L3.Dst.List[1].IP) = 16
    /\ l3.ret.err = "nil"
    /\ l3.ret.rule.Exprs.kind = "cmp"
    /\ l3.ret.elements = Nil

\* An address spec with an empty List and a Range that lacks an endpoint.
EmptySpec(a) == a # Nil /\ Len(a.List) = 0 /\ (a.Range[1] = Nil \/ a.Range[2] = Nil)

\* The address spec the call compiles: Dst when set, else Src.
L3Addr == IF l3.rule.L3.Dst # Nil THEN l3.rule.L3.Dst ELSE l3.rule.L3.Src

\* The family of the call is neither IPv4 nor IPv6.
UnknownFamily == l3.l3proto \notin {TableFamilyIPv4, TableFamilyIPv6}

\* C22 (as claimed): for every rule, createL3 returns an error when the
\* family is neither IPv4 nor IPv6, and when an address spec of the rule has
\* an empty List and an incomplete Range; with an error it returns no rule
\* and no set elements.
C22_Original ==
    L3Done =>
        /\ UnknownFamily => l3.ret.err # "nil"
        /\ (EmptySpec(l3.rule.L3.Src) \/ EmptySpec(l3.rule.L3.Dst)) => l3.ret.err # "nil"
        /\ l3.ret.err # "nil" => (l3.ret.rule = Nil /\ l3.ret.elements = Nil)

\* C22 (amended): for every rule without Version, createL3 returns an error
\* when the family is neither IPv4 nor IPv6, and when the address spec it
\* compiles (Dst when set, else Src) has an empty List and an incomplete
\* Range; a rule with Version set compiles to the version match for every
\* family; with an error no rule and no set elements are returned.
C22_ErrorConditions ==
    L3Done =>
        /\ (l3.rule.L3.Version = Nil /\ UnknownFamily) => l3.ret.err # "nil"
        /\ (l3.rule.L3.Version = Nil /\ EmptySpec(L3Addr)) => l3.ret.err # "nil"
        /\ l3.rule.L3.Version # Nil
               => (l3.ret.err = "nil" /\ l3.ret.rule.Exprs.kind = "version")
        /\ l3.ret.err # "nil" => (l3.ret.rule = Nil /\ l3.ret.elements = Nil)

\* A source list of two addresses was rejected for a family that is neither
\* IPv4 nor IPv6.
C22_Witness ==
    /\ L3Done
    /\ OnlySrc
    /\ l3.l3proto = TableFamilyINet
    /\ Len(l3.rule.L3.Src.List) = 2
    /\ l3.ret.err = "unknown family"
    /\ l3.ret.rule = Nil
    /\ l3.ret.elements = Nil

\* The rule of the call sets Src and Dst and no Version.
SrcAndDst == l3.rule.L3.Version = Nil /\ l3.rule.L3.Src # Nil /\ l3.rule.L3.Dst # Nil

\* The returned match is the one for Dst at Dst's offset: the comparison with
\* the one address of Dst's list, the set lookup with one element per entry
\* of Dst's list, or the range match of Dst's range.
MatchesDst ==
    LET d == l3.rule.L3.Dst
        e == l3.ret.rule.Exprs
    IN  /\ e.offset = (IF l3.l3proto = TableFamilyIPv4 THEN 16 ELSE 24)
        /\ e.excl = l3.rule.Exclude
        /\ CASE Len(d.List) = 1 ->
                   e.kind = "cmp" /\ e.addr = d.List[1] /\ l3.ret.elements = Nil
              [] Len(d.List) > 1 ->
                   /\ e.kind = "lookup"
                   /\ Len(l3.ret.elements) = Len(d.List)
                   /\ \A i \in 1..Len(d.List) :
                          l3.ret.elements[i].Key
                              = (IF l3.l3proto = TableFamilyIPv4 THEN To4(d.List[i].IP)
                                 ELSE To16(d.List[i].IP))
              [] OTHER ->
                   e.kind = "range" /\ e.rng = d.Range /\ l3.ret.elements = Nil

\* An address spec that holds an address: in its List or as an endpoint of
\* its Range.
Populated(a) == a # Nil /\ (Len(a.List) > 0 \/ a.Range[1] # Nil \/ a.Range[2] # Nil)

\* C23 (as claimed): for IPv4 and IPv6, a rule with no Version whose Src and
\* Dst both hold addresses compiles without error to the one match of Dst's
\* address spec at Dst's offset, 16 for IPv4 and 24 for IPv6.
C23_Original ==
    (L3Done /\ SrcAndDst /\ ~UnknownFamily
        /\ Populated(l3.rule.L3.Src) /\ Populated(l3.rule.L3.Dst))
        => (l3.ret.err = "nil" /\ MatchesDst)

\* C23 (amended): for IPv4 and IPv6, a rule with Src and Dst set and no
\* Version is compiled as the same rule with Src unset: an error when Dst has
\* an empty List and an incomplete Range, whatever Src holds, and otherwise
\* the one match of Dst's address spec at Dst's offset, 16 for IPv4 and 24
\* for IPv6, with no error.
C23_DstOverridesSrc ==
    (L3Done /\ SrcAndDst /\ ~UnknownFamily)
        => /\ EmptySpec(l3.rule.L3.Dst)
                 => (l3.ret.err # "nil" /\ l3.ret.rule = Nil /\ l3.ret.elements = Nil)
           /\ ~EmptySpec(l3.rule.L3.Dst)
                 => (l3.ret.err = "nil" /\ MatchesDst)
           /\ l3.ret = createL3(l3.l3proto, [l3.rule EXCEPT !.L3.Src = Nil], l3.set)

\* A rule with the source list {1.2.3.4} and the destination list
\* {2001:1234::1} was compiled for IPv6 to the comparison with the
\* destination at offset 24.
C23_Witness ==
    /\ L3Done
    /\ SrcAndDst
    /\ l3.l3proto = TableFamilyIPv6
    /\ Len(l3.rule.L3.Src.List) = 1
    /\ Len(l3.rule.L3.Dst.List) = 1
    /\ l3.rule.L3.Src.List[1] # l3.rule.L3.Dst.List[1]
    /\ l3.ret.err = "nil"
    /\ l3.ret.rule.Exprs.kind = "cmp"
    /\ l3.ret.rule.Exprs.offset = 24
    /\ l3.ret.rule.Exprs.addr = l3.rule.L3.Dst.List[1]

\* Thread t makes the insert of Sync for the chain of its list it is at.
SyncInserts(t) == th[t].pc = "SyncInsert" /\ th'[t].pc = "SyncRules"

\* The entry of name n was inserted by a Create of thread u that was called
\* after the Sync that thread t is in.
CreatedDuringSync(t, u, n) ==
    /\ u # t
    /\ chains[n] # Nil
    /\ chains[n].by = "create"
    /\ th[u].op = "Create"
    /\ th[u].name = n
    /\ th[u].ret = "nil"
    /\ chains[n].id = th[u].seq
    /\ th[u].seq > th[t].seq

\* C24 (as claimed): with two callers, the insert of Sync never replaces an
\* entry that a Create running concurrently with the Sync has inserted.
C24_Original ==
    [][\A t \in Threads : \A u \in Threads :
          SyncInserts(t) => ~CreatedDuringSync(t, u, th[t].list[th[t].i].Name)]_vars

\* C25 (as claimed): with two callers, the look-up that Sync makes after its
\* insert, for the Sync of the chain's rules, always finds the entry: no Sync
\* ends in the dereference of a missing entry.
C25_Original == \A t \in Threads : th[t].pc # "panic"

\* Thread t issues the commit of a CreateImm or of a DeleteImm.
ImmCommits(t) ==
    /\ th[t].pc \in {"CreateImmFlush", "DeleteImmAttempt"}
    /\ Len(th'[t].results) = Len(th[t].results) + 1

\* The requests on the connection when thread t commits: those staged before,
\* and for DeleteImm its own delete request after them.
Batch(t) ==
    IF th[t].pc = "DeleteImmAttempt"
    THEN Append(staged, [kind |-> "del", chain |-> th[t].ch.chain])
    ELSE staged

\* The j-th request of batch b is the last of b for its chain.
LastFor(b, j) ==
    \A k \in (j + 1)..Len(b) :
        b[k].chain.Table # b[j].chain.Table \/ b[k].chain.Name # b[j].chain.Name

\* C26: the commit of a CreateImm or DeleteImm leaves nothing staged on the
\* connection and, when it succeeds, has applied every request staged before
\* it, those of earlier Create and Delete calls included: a chain whose last
\* request is an add is in the kernel, one whose last request is a delete is
\* not. A CreateImm that finds its name in the store stages nothing and
\* changes nothing in the store, and is refused as a conflict or goes on to
\* its commit; every CreateImm that returns nil has issued one commit.
C26_ImmCommitsAll ==
    [][\A t \in Threads :
          /\ ImmCommits(t)
                => /\ staged' = <<>>
                   /\ Last(th'[t].results) = "nil"
                         => \A j \in 1..Len(Batch(t)) :
                               LET m == Batch(t)[j]
                               IN  LastFor(Batch(t), j)
                                     => (kernel'[m.chain.Table][m.chain.Name] # Nil)
                                            = (m.kind = "add")
          /\ (/\ Calls(t)
              /\ th'[t].op = "CreateImm"
              /\ chains[th'[t].name] # Nil)
                => /\ staged' = staged
                   /\ chains' = chains
                   /\ \/ th'[t].pc = "CreateImmFlush"
                      \/ th'[t].pc = "idle" /\ th'[t].ret = "conflict"
          /\ (/\ th'[t] # th[t]
              /\ th'[t].pc = "idle"
              /\ th'[t].op = "CreateImm"
              /\ th'[t].ret = "nil")
                => th'[t].results = <<"nil">>]_vars

\* The third call, a CreateImm of the name the first call created, has
\* returned nil after one commit that succeeded; the second call created
\* another name, and the kernel holds both chains.
C26_Witness ==
    \E t \in Threads : \E n \in Names : \E m \in Names \ {n} :
        /\ Done(t, "CreateImm")
        /\ th[t].name = n
        /\ th[t].ret = "nil"
        /\ th[t].results = <<"nil">>
        /\ th[t].seq = 3
        /\ externals = 0
        /\ InStore(n) /\ chains[n].by = "create" /\ chains[n].id = 1
        /\ InStore(m) /\ chains[m].by = "create" /\ chains[m].id = 2
        /\ kernel[OwnTable][n] # Nil
        /\ kernel[OwnTable][m] # Nil
        /\ staged = <<>>

\* The program counters at which a call holds the mutex between two steps.
LockedPcs == {"CreateImmFlush", "DeleteImmAttempt", "DeleteImmSelect"}

\* The mutex is held only by a call that is between its Lock and its Unlock:
\* not by a caller that has returned, and not by a call that is about to
\* take it.
LockDiscipline ==
    \A t \in Threads :
        /\ lock = t => th[t].pc \in LockedPcs
        /\ th[t].pc \in LockedPcs => lock = t

\* C27 (as claimed): with two callers, no call is at a Lock() while it holds
\* the mutex, no caller that has returned holds it, and every call that has
\* been made eventually returns.
C27_Original ==
    /\ []LockDiscipline
    /\ \A t \in Threads : (th[t].pc # "idle") ~> (th[t].pc = "idle")

====
